---- MODULE Spec2Model ----
(***************************************************************************)
(* Echoes of Indiana: the presentation state machine (state-machine.js),   *)
(* the rendezvous Compositor (src/unnamed/part_007) and the SimliManager   *)
(* (src/unnamed/part_005), as one event-loop state machine.                *)
(*                                                                         *)
(* One action is one event-loop task: the synchronous code a call, a timer *)
(* or a DOM event runs, followed by the promise continuations (microtasks) *)
(* that code made runnable.  Timers, the token request, the play() promise *)
(* and the media 'ended' event are pending tasks that fire in any order.   *)
(***************************************************************************)
EXTENDS Integers, FiniteSets, Sequences, TLC

\* ---------------------------------------------------------------- bounds
\* Accepted activations in one run (each one is an activation attempt).
MaxAttempts == 2
\* Pending hideTransitionVideo cleanup timers tracked at once.
MaxCleanupTimers == 2
\* Pending setTimeout(returnToIdle) timers tracked at once.
MaxReturnTimers == 1
\* Running rotation timers of the Status Messenger tracked at once.
MaxRotationTimers == 2
\* Pending timers and token requests counted per kind on the 4-layer page.
MaxLayerTimers == 1
\* 'simli-video-ready' events counted per widget in the history.
MaxReadyEvents == 2
\* Ticks of one rotation timer followed.
MaxTicks == 20
\* Longest candidate list of a videos entry.
MaxListLen == 3
\* Token requests of the touchscreen page in flight per persona.
MaxTouchRequests == 1
\* Spins of the persona spinner, and the animation frames of one spin: frame
\* k of MaxFrames is drawn at k/MaxFrames of the reel's duration.
MaxSpins == 2
MaxFrames == 2

Attempts == 1..MaxAttempts

\* ---------------------------------------------------------- configuration
\* CONFIG.personas, reduced to what the handlers read: whether the persona
\* declares videos.idleToActive and videos.activeToIdle.  "mabel" declares
\* only the entry clip, as every persona enabled in config.js does;
\* "hoosier-oracle" (the template entry) declares both; "no-clips" stands
\* for an entry that declares neither, which pickVideo provides for.
Personas == {"hoosier-oracle", "mabel", "no-clips"}

\* Ids a caller may pass: the configured ones and one that is not configured.
PersonaIds == Personas \cup {"unknown"}

idleToActive(p) == p \in {"hoosier-oracle", "mabel"}

activeToIdle(p) == p = "hoosier-oracle"

\* StateMachine.states
IDLE == "idle"
TRANSITIONING_IN == "transitioning-in"
ACTIVE == "active"
PROCESSING == "processing"
TRANSITIONING_OUT == "transitioning-out"

States == {IDLE, TRANSITIONING_IN, ACTIVE, PROCESSING, TRANSITIONING_OUT}

VARIABLES
    \* StateMachine; rotationTimers counts the setInterval timers that run,
    \* processingMessageInterval is whether the field holds a handle
    currentState, activePersona, processingMessageInterval, rotationTimers,
    \* Compositor
    transitionComplete, simliReady,
    \* #video-transition: class 'active', the media element, its cleanup timers
    transitionActive, video, videoAtt, videoRole, cleanupTimers,
    \* #simli-mount: class 'active', the widget appended to it, its video stream
    mountActive, mountChild, videoStream,
    \* SimliManager
    currentWidget, videoStreamActive, detectionTimeout,
    \* activation attempts and their pending continuations and timers
    attempt, hti, poll, fallback, returnTimers,
    \* history, not program state.  Of the current activation: its entry clip
    \* is over (ended, failed to start, or none configured), one of its own
    \* detectors has signalled ready, the swaps done since it was accepted,
    \* forceReset has ended it while it was entering.  discard: the attempts
    \* that forceReset ended while their token request was in flight.
    clipDone, sessReady, swaps, resetInEntering, discard,
    \* history: how many 'simli-video-ready' events the detectors of each
    \* widget have dispatched; kept by SpecReady only, <<>> elsewhere
    readySent,
    \* the page of the 4-layer Compositor (compositor.js, second version):
    \* a record of its StateMachine, its layers and its pending tasks
    c4,
    \* the Status Messenger: the timer of startProcessingMessages with the
    \* index its callback closes over, the status overlay, and (history) the
    \* ticks since the start and the index the rotation before it stopped at
    messenger,
    \* the Asset Selector: a videos entry of a persona (config) and what
    \* pickVideo last returned for it
    picker,
    \* the touchscreen page: the fields of TouchscreenApp, the content of
    \* #simli-container and the token requests in flight
    touch,
    \* the persona spinner: one reel of SpinMode, its plan, the animation
    \* frame reached and the reported payline symbol
    spinner

mainVars == <<currentState, activePersona, processingMessageInterval,
          rotationTimers,
          transitionComplete, simliReady,
          transitionActive, video, videoAtt, videoRole, cleanupTimers,
          mountActive, mountChild, videoStream,
          currentWidget, videoStreamActive, detectionTimeout,
          attempt, hti, poll, fallback, returnTimers,
          clipDone, sessReady, swaps, resetInEntering, discard, readySent>>

vars == <<mainVars, c4, messenger, picker, touch, spinner>>

\* The whole state as one record, so that a handler is a function on states
\* and a call chain is a composition.  Two more fields are the output of the
\* task that runs on it, and are not kept from one task to the next:
\* notified, the details of the 'statechange' events it dispatched, in order,
\* warned, whether it wrote a diagnostic (console.warn / console.error),
\* readyEvents, the 'simli-video-ready' events it dispatched, and
\* fallbackLogged, whether it wrote the fallback timer's 'FALLBACK' line.
St ==
    [currentState |-> currentState, activePersona |-> activePersona,
     processingMessageInterval |-> processingMessageInterval,
     rotationTimers |-> rotationTimers,
     transitionComplete |-> transitionComplete, simliReady |-> simliReady,
     transitionActive |-> transitionActive, video |-> video,
     videoAtt |-> videoAtt, videoRole |-> videoRole,
     cleanupTimers |-> cleanupTimers,
     mountActive |-> mountActive, mountChild |-> mountChild,
     videoStream |-> videoStream,
     currentWidget |-> currentWidget, videoStreamActive |-> videoStreamActive,
     detectionTimeout |-> detectionTimeout,
     attempt |-> attempt, hti |-> hti, poll |-> poll, fallback |-> fallback,
     returnTimers |-> returnTimers,
     clipDone |-> clipDone, sessReady |-> sessReady, swaps |-> swaps,
     resetInEntering |-> resetInEntering, discard |-> discard,
     readySent |-> readySent,
     notified |-> <<>>, warned |-> FALSE,
     readyEvents |-> 0, fallbackLogged |-> FALSE]

Commit(s) ==
    /\ currentState' = s.currentState
    /\ activePersona' = s.activePersona
    /\ processingMessageInterval' = s.processingMessageInterval
    /\ rotationTimers' = s.rotationTimers
    /\ transitionComplete' = s.transitionComplete
    /\ simliReady' = s.simliReady
    /\ transitionActive' = s.transitionActive
    /\ video' = s.video
    /\ videoAtt' = s.videoAtt
    /\ videoRole' = s.videoRole
    /\ cleanupTimers' = s.cleanupTimers
    /\ mountActive' = s.mountActive
    /\ mountChild' = s.mountChild
    /\ videoStream' = s.videoStream
    /\ currentWidget' = s.currentWidget
    /\ videoStreamActive' = s.videoStreamActive
    /\ detectionTimeout' = s.detectionTimeout
    /\ attempt' = s.attempt
    /\ hti' = s.hti
    /\ poll' = s.poll
    /\ fallback' = s.fallback
    /\ returnTimers' = s.returnTimers
    /\ clipDone' = s.clipDone
    /\ sessReady' = s.sessReady
    /\ swaps' = s.swaps
    /\ resetInEntering' = s.resetInEntering
    /\ discard' = s.discard
    /\ readySent' = s.readySent
    /\ c4' = c4
    /\ messenger' = messenger
    /\ picker' = picker
    /\ touch' = touch
    /\ spinner' = spinner

Min(a, b) == IF a < b THEN a ELSE b

\* The detail of a 'statechange' event, as setState builds it.
Notification(newState, persona, previousState) ==
    [state |-> newState, persona |-> persona, previousState |-> previousState]

\* The states named by the notifications a task dispatched, in order.
NotifiedStates(r) == [i \in 1..Len(r.notified) |-> r.notified[i].state]

\* CONFIG.video.idleLoops: the shipped list has one clip and is laid out to
\* take more; two make the selection visible.
IdleLoops == <<"idle_1.mp4", "idle_2.mp4">>

\* Indices of CONFIG.video.idleLoops (from 0, as in the source).
IdleLoopIndices == 0..(Len(IdleLoops) - 1)

\* A perpetual overlay (Layer 1 or 4) as startFloaties leaves it: src and
\* loop set, play() called and not settled, the class 'active' not yet set.
FloatiesLoading == [src |-> TRUE, loop |-> TRUE, active |-> FALSE, play |-> "pending"]

\* The 4-layer page once DOMContentLoaded has run StateMachine.init and
\* Compositor.init (startFloaties with both overlays configured, then
\* startIdleLoop).  When the Compositor's 'statechange' listener is there
\* before StateMachine.init, handleIdleState has run once as well and left
\* one clearTransitionVideo timer.
Compositor4Init ==
    {[state |-> IDLE, activePersona |-> "null",
      isIdleLoopPlaying |-> TRUE, idleLoopIndex |-> i,
      idleActive |-> TRUE, idleLoop |-> "loading", pauseTimers |-> 0,
      transitionActive |-> FALSE, transition |-> "empty",
      transitionRole |-> "none", clearTimers |-> n,
      completeTimers |-> 0, returnTimers |-> 0,
      tokenRequests |-> 0, widget |-> FALSE, videoReady |-> FALSE,
      bottomFloaties |-> FloatiesLoading, topFloaties |-> FloatiesLoading] :
        i \in IdleLoopIndices, n \in {0, 1}}

\* CONFIG.personas[p].processingMessages; an entry without the field gets
\* the default list of startProcessingMessages.
processingMessages(p) ==
    CASE p = "mabel" -> <<"Mabel is checking the grain...",
                          "Mabel is listening to the whistle...",
                          "Mabel is counting the pieces...",
                          "Mabel is considering your question...">>
      [] p = "hoosier-oracle" -> <<"Oracle is routing your query...",
                                   "Oracle is consulting the echoes...",
                                   "Oracle is gathering wisdom...">>
      [] OTHER -> <<"Processing...">>

\* The clips a videos entry may name (config.js names them per persona).
Clips == {"idle_to_mabel_1.MOV", "idle_to_mabel_2.mp4", "mabel_to_idle.mp4"}

ClipLists == UNION {[1..n -> Clips] : n \in 0..MaxListLen}

\* The values of persona.videos.idleToActive / activeToIdle: null, a single
\* string, or an array of strings.  A string is kept as a list of one.
VideoConfigs ==
    {[kind |-> "null", list |-> <<>>]}
        \cup {[kind |-> "string", list |-> <<c>>] : c \in Clips}
        \cup {[kind |-> "array", list |-> l] : l \in ClipLists}

\* No pickVideo call has been made; the 2-layer page of the other
\* specifications keeps the entry of Mabel.
PickerInit ==
    [config |-> [kind |-> "array", list |-> <<"idle_to_mabel_2.mp4">>],
     picked |-> FALSE, result |-> "null"]

\* The spinner's configuration.  PersonaCount is the length of PERSONAS.
REELS == 5
SYMBOLS_PER_REEL == 6
PersonaCount == 30

\* Rotations are kept in units of 1/Scale of a degree, which holds every
\* frame of a spin between whole degrees exactly.
Scale == MaxFrames * MaxFrames * MaxFrames
Degrees(d) == d * Scale

\* const step = 360 / SYMBOLS_PER_REEL
step == Degrees(360) \div SYMBOLS_PER_REEL

\* One reel r of SpinMode after the initialising effect: rotations[r] at its
\* offset position, not spinning, no result (<<>>), no plan.  planned tells
\* whether spinPlanRef.current is set; plan is its value and, once it is
\* cleared, the plan of the latest spin.  completed is history: the result
\* shown was set by the last frame of that spin.
SpinnerInit(r) ==
    LET rot == -((r % SYMBOLS_PER_REEL) * step)
    IN  [reel |-> r, rotation |-> rot,
         spinning |-> FALSE, result |-> <<>>, planned |-> FALSE,
         plan |-> [startRot |-> rot, endRot |-> rot, stopIdx |-> 0],
         frame |-> 0, spins |-> 0, completed |-> FALSE]

SpinnerIdle == SpinnerInit(0)

\* TouchscreenApp as its object literal sets it, #simli-container empty.  A
\* widget is named by the persona it was created for.
TouchInit ==
    [currentState |-> "menu", currentPersona |-> "null", simliWidget |-> "null",
     container |-> {}, requests |-> [p \in Personas |-> 0]]

\* The status overlay starts hidden and no rotation timer runs.
MessengerInit ==
    [persona |-> "null", interval |-> FALSE, currentIndex |-> 0,
     text |-> "", visible |-> FALSE, ticks |-> 0, previousIndex |-> 0]

\* The fields as the object literals set them.  StateMachine.init dispatches
\* 'statechange' for IDLE on DOMContentLoaded; when the Compositor's listener
\* is registered first, handleIdle runs once and leaves one cleanup timer.
MainInit ==
    /\ currentState = IDLE
    /\ activePersona = "null"
    /\ processingMessageInterval = FALSE
    /\ rotationTimers = 0
    /\ transitionComplete = FALSE
    /\ simliReady = FALSE
    /\ transitionActive = FALSE
    /\ video = "empty"
    /\ videoAtt = 0
    /\ videoRole = "none"
    /\ cleanupTimers \in {0, 1}
    /\ mountActive = FALSE
    /\ mountChild = 0
    /\ videoStream = FALSE
    /\ currentWidget = 0
    /\ videoStreamActive = FALSE
    /\ detectionTimeout = 0
    /\ attempt = 0
    /\ hti = [a \in Attempts |-> "none"]
    /\ poll = [a \in Attempts |-> FALSE]
    /\ fallback = [a \in Attempts |-> FALSE]
    /\ returnTimers = 0
    /\ clipDone = FALSE
    /\ sessReady = FALSE
    /\ swaps = 0
    /\ resetInEntering = FALSE
    /\ discard = {}

\* The rendezvous page at its start; the 4-layer page is a page of its own
\* and stays as loaded.
Init ==
    /\ MainInit
    /\ readySent = <<>>
    /\ c4 = CHOOSE c \in Compositor4Init : c.idleLoopIndex = 0 /\ c.clearTimers = 0
    /\ messenger = MessengerInit
    /\ spinner = SpinnerIdle
    /\ touch = TouchInit
    /\ picker = PickerInit

\* ------------------------------------------------------------ SimliManager

\* SimliManager.showWidget: the mount gets the class 'active'.
showWidget(s) == [s EXCEPT !.mountActive = TRUE]

\* SimliManager.destroyWidget: clearTimeout of the handle held in
\* detectionTimeout (the handle itself is kept), the mount loses 'active'
\* and its content, currentWidget and videoStreamActive are reset.  The
\* polling loop of detectVideoStream holds no handle and is not stopped.
\* (The inline style that keeps the emptied mount invisible for 500 ms more
\* is left out: visibility is the class 'active'.)
destroyWidget(s) ==
    [s EXCEPT !.fallback = IF s.detectionTimeout # 0
                           THEN [@ EXCEPT ![s.detectionTimeout] = FALSE]
                           ELSE @,
              !.mountActive = FALSE,
              !.mountChild = 0,
              !.videoStream = FALSE,
              !.currentWidget = 0,
              !.videoStreamActive = FALSE]

\* SimliManager.forceCleanup: the same teardown, written out again in the code.
forceCleanup(s) ==
    [s EXCEPT !.fallback = IF s.detectionTimeout # 0
                           THEN [@ EXCEPT ![s.detectionTimeout] = FALSE]
                           ELSE @,
              !.mountActive = FALSE,
              !.mountChild = 0,
              !.videoStream = FALSE,
              !.currentWidget = 0,
              !.videoStreamActive = FALSE]

\* ------------------------------------------------------------- Compositor

\* Compositor.hideTransitionVideo: the class goes at once, pause() and
\* src = '' follow from a 500 ms timer that nothing cancels.
hideTransitionVideo(s) ==
    [s EXCEPT !.transitionActive = FALSE,
              !.cleanupTimers = Min(@ + 1, MaxCleanupTimers)]

\* Compositor.handleActive: logs only.
handleActive(s, persona) == s

\* handleIdle without its call of SimliManager.destroyWidget.
handleIdle_KeepWidget(s) ==
    hideTransitionVideo(
        [s EXCEPT !.transitionComplete = FALSE, !.simliReady = FALSE])

\* Compositor.handleIdle
handleIdle(s) ==
    destroyWidget(hideTransitionVideo(
        [s EXCEPT !.transitionComplete = FALSE, !.simliReady = FALSE]))

\* StateMachine.stopProcessingMessages: clearInterval of the handle held.
stopProcessingMessages(s) ==
    IF s.processingMessageInterval
    THEN [s EXCEPT !.processingMessageInterval = FALSE,
                   !.rotationTimers = @ - 1]
    ELSE s

\* StateMachine.startProcessingMessages: no timer without an active persona;
\* setInterval starts a timer and its handle overwrites the one held.
startProcessingMessages(s) ==
    IF s.activePersona = "null" THEN s
    ELSE [s EXCEPT !.processingMessageInterval = TRUE,
                   !.rotationTimers = Min(@ + 1, MaxRotationTimers)]

\* StateMachine.transitionComplete: setState(ACTIVE), whose 'statechange'
\* listener runs handleActive.
SM_transitionComplete(s) ==
    IF s.currentState # TRANSITIONING_IN THEN [s EXCEPT !.warned = TRUE]
    ELSE handleActive([s EXCEPT !.currentState = ACTIVE,
                                !.notified =
                                    Append(@, Notification(ACTIVE,
                                                           s.activePersona,
                                                           s.currentState))],
                      s.activePersona)

\* Compositor.tryShowSimli: the rendezvous of the two flags.
tryShowSimli(s) ==
    IF s.transitionComplete /\ s.simliReady
    THEN LET shown == showWidget(hideTransitionVideo(s))
             counted == [shown EXCEPT !.swaps = Min(@ + 1, 2)]
         IN  IF counted.currentState = TRANSITIONING_IN
             THEN SM_transitionComplete(counted)
             ELSE counted
    ELSE s

\* SimliManager.onVideoReady followed by the Compositor's
\* 'simli-video-ready' listener.
onVideoReady(s) ==
    IF s.videoStreamActive THEN s
    ELSE tryShowSimli(
           [s EXCEPT !.videoStreamActive = TRUE,
                     !.readyEvents = @ + 1,
                     !.fallback = IF s.detectionTimeout # 0
                                  THEN [@ EXCEPT ![s.detectionTimeout] = FALSE]
                                  ELSE @,
                     !.detectionTimeout = 0,
                     !.simliReady = TRUE])

\* SimliManager.createWidget up to its await: the token request is in flight.
createWidgetStart(s, a) == [s EXCEPT !.hti[a] = "awaitToken"]

\* The catch block of playTransitionVideo for the play() promise of attempt
\* a's clip, and what follows its return: handleTransitionIn (role "in")
\* goes on to createWidget, handleTransitionOut (role "out") awaited nothing.
playRejected(s, a, role) ==
    LET own == role = "in" /\ a = s.attempt /\ s.currentState = TRANSITIONING_IN
        caught == tryShowSimli([s EXCEPT !.transitionComplete = TRUE,
                                         !.clipDone = @ \/ own,
                                         !.warned = TRUE])
    IN  IF role = "in" THEN createWidgetStart(caught, a) ELSE caught

\* Compositor.playTransitionVideo up to its await.  Assigning src runs the
\* media element's load algorithm, which rejects a play() promise that is
\* still pending; that promise's continuation runs once the calling code
\* has returned, and nothing of the caller runs after this point.
playTransitionVideo(s, a, role) ==
    LET loaded == [s EXCEPT !.video = "loading",
                            !.videoAtt = a,
                            !.videoRole = role,
                            !.transitionActive = TRUE,
                            !.hti[a] = IF role = "in" THEN "awaitPlay" ELSE @]
    IN  IF s.video = "loading"
        THEN playRejected(loaded, s.videoAtt, s.videoRole)
        ELSE loaded

\* handleTransitionIn without the else branch that marks the transition
\* complete when no entry clip is picked.
handleTransitionIn_NoElse(s, personaId) ==
    LET reset == [s EXCEPT !.transitionComplete = FALSE, !.simliReady = FALSE]
    IN  IF idleToActive(personaId)
        THEN playTransitionVideo(reset, s.attempt, "in")
        ELSE createWidgetStart([reset EXCEPT !.clipDone = TRUE], s.attempt)

\* Compositor.handleTransitionIn up to its first await.
handleTransitionIn(s, personaId) ==
    LET reset == [s EXCEPT !.transitionComplete = FALSE, !.simliReady = FALSE]
    IN  IF idleToActive(personaId)
        THEN playTransitionVideo(reset, s.attempt, "in")
        ELSE createWidgetStart(
               [reset EXCEPT !.transitionComplete = TRUE, !.clipDone = TRUE],
               s.attempt)

\* Compositor.handleTransitionOut
handleTransitionOut(s, personaId) ==
    LET destroyed == destroyWidget(s)
    IN  IF personaId \in Personas /\ activeToIdle(personaId)
        THEN playTransitionVideo(destroyed, s.attempt, "out")
        ELSE [destroyed EXCEPT !.returnTimers = Min(@ + 1, MaxReturnTimers)]

\* StateMachine.setState and the Compositor's 'statechange' listener, which
\* dispatchEvent runs before setState returns.
setState(s, newState, persona) ==
    LET set == [s EXCEPT !.currentState = newState,
                         !.notified =
                             Append(@, Notification(newState, persona,
                                                    s.currentState))]
    IN  CASE newState = IDLE -> handleIdle(set)
          [] newState = TRANSITIONING_IN -> handleTransitionIn(set, persona)
          [] newState = ACTIVE -> handleActive(set, persona)
          [] newState = TRANSITIONING_OUT -> handleTransitionOut(set, persona)
          [] OTHER -> set

\* A forceReset that goes to Idle with the persona still set.
SM_forceReset_KeepPersona(s) ==
    setState([stopProcessingMessages(s) EXCEPT !.warned = TRUE],
             IDLE, s.activePersona)

\* StateMachine.forceReset
SM_forceReset(s) ==
    LET entering == s.currentState = TRANSITIONING_IN
        noted == [s EXCEPT !.resetInEntering = @ \/ entering,
                           !.discard = IF entering /\ s.hti[s.attempt] = "awaitToken"
                                       THEN @ \cup {s.attempt} ELSE @]
    IN  setState([stopProcessingMessages(noted) EXCEPT !.activePersona = "null",
                                                       !.warned = TRUE],
                 IDLE, "null")

\* returnToIdle without clearing activePersona, which it then passes on.
returnToIdle_KeepPersona(s) ==
    IF s.currentState # TRANSITIONING_OUT THEN [s EXCEPT !.warned = TRUE]
    ELSE setState(s, IDLE, s.activePersona)

\* StateMachine.returnToIdle
returnToIdle(s) ==
    IF s.currentState # TRANSITIONING_OUT THEN [s EXCEPT !.warned = TRUE]
    ELSE setState([s EXCEPT !.activePersona = "null"], IDLE, "null")

\* Compositor.forceReset
forceReset(s) ==
    SM_forceReset(forceCleanup(hideTransitionVideo(
        [s EXCEPT !.transitionComplete = FALSE, !.simliReady = FALSE])))

\* ----------------------------------------------------------- StateMachine

\* summonPersona without its check of the current state.
summonPersona_NoGuard(s, personaId) ==
    IF personaId \notin Personas THEN [s EXCEPT !.warned = TRUE]
    ELSE setState([s EXCEPT !.activePersona = personaId,
                            !.attempt = Min(@ + 1, MaxAttempts),
                            !.clipDone = FALSE,
                            !.sessReady = FALSE,
                            !.swaps = 0,
                            !.resetInEntering = FALSE],
                  TRANSITIONING_IN, personaId)

\* summonPersona without its look-up of the persona in CONFIG.personas.
summonPersona_NoLookup(s, personaId) ==
    IF s.currentState # IDLE THEN [s EXCEPT !.warned = TRUE]
    ELSE setState([s EXCEPT !.activePersona = personaId,
                            !.attempt = Min(@ + 1, MaxAttempts),
                            !.clipDone = FALSE,
                            !.sessReady = FALSE,
                            !.swaps = 0,
                            !.resetInEntering = FALSE],
                  TRANSITIONING_IN, personaId)

\* StateMachine.summonPersona
summonPersona(s, personaId) ==
    IF s.currentState # IDLE THEN [s EXCEPT !.warned = TRUE]
    ELSE IF personaId \notin Personas THEN [s EXCEPT !.warned = TRUE]
    ELSE setState([s EXCEPT !.activePersona = personaId,
                            !.attempt = @ + 1,
                            !.clipDone = FALSE,
                            !.sessReady = FALSE,
                            !.swaps = 0,
                            !.resetInEntering = FALSE],
                  TRANSITIONING_IN, personaId)

\* startProcessing without its check of the current state.
startProcessing_NoGuard(s) ==
    startProcessingMessages(setState(s, PROCESSING, s.activePersona))

\* StateMachine.startProcessing
startProcessing(s) ==
    IF s.currentState # ACTIVE THEN [s EXCEPT !.warned = TRUE]
    ELSE startProcessingMessages(setState(s, PROCESSING, s.activePersona))

\* stopProcessing without its call of stopProcessingMessages.
stopProcessing_KeepTimer(s) ==
    IF s.currentState # PROCESSING THEN s
    ELSE setState(s, ACTIVE, s.activePersona)

\* StateMachine.stopProcessing
stopProcessing(s) ==
    IF s.currentState # PROCESSING THEN s
    ELSE stopProcessingMessages(setState(s, ACTIVE, s.activePersona))

\* dismissPersona without its check of the current state.
dismissPersona_NoGuard(s) ==
    setState(stopProcessingMessages(s), TRANSITIONING_OUT, s.activePersona)

\* StateMachine.dismissPersona
dismissPersona(s) ==
    IF s.currentState # ACTIVE /\ s.currentState # PROCESSING
    THEN [s EXCEPT !.warned = TRUE]
    ELSE setState(stopProcessingMessages(s), TRANSITIONING_OUT, s.activePersona)

\* ----------------------------------------------------------------- actions

\* Compositor.invokePersona(personaId), called by a controller.
InvokePersona(p) ==
    /\ (currentState = IDLE /\ p \in Personas) => attempt < MaxAttempts
    /\ Commit(summonPersona(St, p))

\* Compositor.dismissPersona(), called by a controller.
DismissPersona == Commit(dismissPersona(St))

\* Compositor.forceReset(), called by a controller.
ForceReset == Commit(forceReset(St))

\* The Simli event handlers report that the user spoke.
StartProcessing == Commit(startProcessing(St))

\* The Simli event handlers report that the answer started.
StopProcessing == Commit(stopProcessing(St))

\* The play() promise of the loaded clip resolves: playback has started.
PlayStarted ==
    /\ video = "loading"
    /\ LET playing == [St EXCEPT !.video = "playing"]
       IN  Commit(IF videoRole = "in"
                  THEN createWidgetStart(playing, videoAtt)
                  ELSE playing)

\* The play() promise rejects: the clip cannot be played.
PlayFailed ==
    /\ video = "loading"
    /\ Commit(playRejected([St EXCEPT !.video = "failed"], videoAtt, videoRole))

\* The transition element's 'ended' listener.
TransitionEnded ==
    /\ video = "playing"
    /\ Commit(tryShowSimli(
         [St EXCEPT !.video = "ended",
                    !.transitionComplete = TRUE,
                    !.clipDone = @ \/ (/\ videoRole = "in"
                                        /\ videoAtt = attempt
                                        /\ currentState = TRANSITIONING_IN)]))

\* The timer of hideTransitionVideo: pause() and src = ''.  pause() rejects
\* a play() promise that is still pending.
CleanupTimer ==
    /\ cleanupTimers > 0
    /\ LET unloaded == [St EXCEPT !.cleanupTimers = @ - 1,
                                  !.video = "empty",
                                  !.videoAtt = 0,
                                  !.videoRole = "none"]
       IN  Commit(IF video = "loading"
                  THEN playRejected(unloaded, videoAtt, videoRole)
                  ELSE unloaded)

\* SimliManager.createWidget after its await, the token request of attempt
\* a having returned a token: the widget replaces the mount's content, the
\* polling loop and the fallback timer start, handleTransitionIn sees true.
TokenReceived(a) ==
    /\ hti[a] = "awaitToken"
    /\ Commit([St EXCEPT !.hti[a] = "done",
                         !.mountChild = a,
                         !.videoStream = FALSE,
                         !.currentWidget = a,
                         !.videoStreamActive = FALSE,
                         !.poll[a] = TRUE,
                         !.detectionTimeout = a,
                         !.fallback[a] = TRUE])

\* tokenFailed with handleTransitionIn ignoring createWidget's result.
tokenFailed_Ignored(s, a) == [s EXCEPT !.hti[a] = "done", !.warned = TRUE]

\* SimliManager.createWidget after its await, the token request of attempt
\* a having failed or returned no token: the catch block logs the error and
\* returns false, and handleTransitionIn calls StateMachine.forceReset.
tokenFailed(s, a) ==
    SM_forceReset([s EXCEPT !.hti[a] = "done", !.warned = TRUE])

\* The token request of attempt a fails or returns no token.
TokenFailed(a) ==
    /\ hti[a] = "awaitToken"
    /\ Commit(tokenFailed(St, a))

\* The mounted widget's video element starts to carry a stream.
StreamStarts ==
    /\ mountChild # 0
    /\ ~videoStream
    /\ Commit([St EXCEPT !.videoStream = TRUE])

\* A detector of widget a calls onVideoReady: the history counts the event
\* that call dispatches.
sentBy(s, a) ==
    IF a \in DOMAIN s.readySent /\ ~s.videoStreamActive
    THEN [s EXCEPT !.readySent[a] = Min(@ + 1, MaxReadyEvents)]
    ELSE s

\* detectVideoStream's check of widget a finding a stream: onVideoReady, and
\* the loop is not rescheduled.
pollDetected(s, a) ==
    onVideoReady(sentBy(
        [s EXCEPT !.poll[a] = FALSE,
                  !.sessReady = @ \/ (/\ s.currentState = TRANSITIONING_IN
                                       /\ (a = s.attempt \/ s.mountChild = s.attempt))],
        a))

\* A fallback callback that writes its 'FALLBACK' line before looking at
\* videoStreamActive.
fallbackTimeout_AlwaysLogs(s, a) ==
    LET fired == [s EXCEPT !.fallback[a] = FALSE,
                           !.fallbackLogged = TRUE,
                           !.sessReady = @ \/ (/\ s.currentState = TRANSITIONING_IN
                                                /\ a = s.attempt)]
    IN  IF s.videoStreamActive THEN fired ELSE onVideoReady(sentBy(fired, a))

\* The callback of widget a's fallback timer.
fallbackTimeout(s, a) ==
    LET fired == [s EXCEPT !.fallback[a] = FALSE,
                           !.sessReady = @ \/ (/\ s.currentState = TRANSITIONING_IN
                                                /\ a = s.attempt)]
    IN  IF s.videoStreamActive THEN fired
        ELSE onVideoReady(sentBy([fired EXCEPT !.fallbackLogged = TRUE], a))

\* A tick of attempt a's polling loop (detectVideoStream's check) finds a
\* streaming video in its widget or anywhere under #simli-mount.
PollDetects(a) ==
    /\ poll[a]
    /\ videoStream
    /\ Commit(pollDetected(St, a))

\* The polling loop of attempt a gives up after its 100th check.
PollExhausted(a) ==
    /\ poll[a]
    /\ ~videoStream
    /\ Commit([St EXCEPT !.poll[a] = FALSE])

\* FallbackFires with the timer's callback left empty: the timer expires and
\* onVideoReady is not called.
FallbackFires_Silent(a) ==
    /\ fallback[a]
    /\ Commit([St EXCEPT !.fallback[a] = FALSE])

\* The fallback timer armed by attempt a's createWidget expires.
FallbackFires(a) ==
    /\ fallback[a]
    /\ Commit(fallbackTimeout(St, a))

\* The timer of handleTransitionOut: StateMachine.returnToIdle.
ReturnTimer ==
    /\ returnTimers > 0
    /\ Commit(returnToIdle([St EXCEPT !.returnTimers = @ - 1]))

\* What a controller or the widget may do at any time.
Controller ==
    \/ \E p \in PersonaIds : InvokePersona(p)
    \/ DismissPersona
    \/ ForceReset
    \/ StartProcessing
    \/ StopProcessing

\* The tasks the program itself has left pending: armed timers, a token
\* request in flight, a play() promise, a clip that is playing.
Pending ==
    \/ PlayStarted
    \/ PlayFailed
    \/ TransitionEnded
    \/ CleanupTimer
    \/ ReturnTimer
    \/ \E a \in Attempts : TokenReceived(a)
    \/ \E a \in Attempts : TokenFailed(a)
    \/ \E a \in Attempts : PollDetects(a)
    \/ \E a \in Attempts : PollExhausted(a)
    \/ \E a \in Attempts : FallbackFires(a)

Next == Controller \/ Pending \/ StreamStarts

Spec == Init /\ [][Next]_vars

\* The same page with the history of the ready events kept.
InitReady ==
    /\ MainInit
    /\ cleanupTimers = 0
    /\ readySent = [a \in Attempts |-> 0]
    /\ c4 = CHOOSE c \in Compositor4Init : c.idleLoopIndex = 0 /\ c.clearTimers = 0
    /\ messenger = MessengerInit
    /\ spinner = SpinnerIdle
    /\ touch = TouchInit
    /\ picker = PickerInit

SpecReady == InitReady /\ [][Next]_vars

\* What the event loop and the browser guarantee: a pending timer fires, a
\* token request returns, a play() promise settles, a clip that plays and is
\* not paused ends, a polling loop finishes.  Nothing obliges a controller to
\* call anything, nor the widget's stream to start.
Fairness ==
    /\ WF_vars(PlayStarted \/ PlayFailed)
    /\ WF_vars(TransitionEnded)
    /\ WF_vars(CleanupTimer)
    /\ WF_vars(ReturnTimer)
    /\ \A a \in Attempts : WF_vars(TokenReceived(a) \/ TokenFailed(a))
    /\ \A a \in Attempts : WF_vars(FallbackFires(a))
    /\ \A a \in Attempts : WF_vars(PollDetects(a) \/ PollExhausted(a))

FairSpec == Spec /\ Fairness

\* ------------------------------------- the 4-layer Compositor (compositor.js)
\* The second Compositor of compositor.js with the same StateMachine, as
\* functions on the record c4.  The idle-loop selection is random
\* (CONFIG.video.randomizeIdleLoops): the index picked is the parameter i.
\* Of the SimliManager this page keeps what the layers depend on: the token
\* requests in flight, whether a widget is mounted, whether it is ready.

\* A stopIdleLoop that also fades the top overlay out with the idle loop.
stopIdleLoop_HidesOverlay(c) ==
    [c EXCEPT !.isIdleLoopPlaying = FALSE,
              !.idleActive = FALSE,
              !.pauseTimers = Min(@ + 1, MaxLayerTimers),
              !.topFloaties = [@ EXCEPT !.active = FALSE]]

\* Compositor.stopIdleLoop: pause() follows from a 500 ms timer.
stopIdleLoop(c) ==
    [c EXCEPT !.isIdleLoopPlaying = FALSE,
              !.idleActive = FALSE,
              !.pauseTimers = Min(@ + 1, MaxLayerTimers)]

\* Compositor.playNextIdleLoop: picks a clip, assigns src, calls play().
playNextIdleLoop(c, i) ==
    IF ~c.isIdleLoopPlaying THEN c
    ELSE [c EXCEPT !.idleLoopIndex = i,
                   !.idleLoop = "loading",
                   !.idleActive = TRUE]

\* Compositor.resumeIdleLoop
resumeIdleLoop(c, i) == playNextIdleLoop([c EXCEPT !.isIdleLoopPlaying = TRUE], i)

\* The play() promise of an entry clip settles, or is rejected because the
\* element is reloaded or paused: handleTransitionInState resumes after its
\* await and calls SimliManager.createWidget, which requests a token.
entryPlaySettled(c) ==
    IF c.transition = "loading" /\ c.transitionRole = "in"
    THEN [c EXCEPT !.tokenRequests = Min(@ + 1, MaxLayerTimers)]
    ELSE c

\* Compositor.clearTransitionVideo(instant)
clearTransitionVideo(c, instant) ==
    IF instant
    THEN [entryPlaySettled(c) EXCEPT !.transitionActive = FALSE,
                                     !.transition = "empty",
                                     !.transitionRole = "none"]
    ELSE [c EXCEPT !.transitionActive = FALSE,
                   !.clearTimers = Min(@ + 1, MaxLayerTimers)]

\* Compositor.playTransitionVideo (second version) up to its await.
playTransitionVideo4(c, role) ==
    [entryPlaySettled(c) EXCEPT !.transition = "loading",
                                !.transitionRole = role,
                                !.transitionActive = TRUE]

\* Compositor.handleIdleState (SimliManager.hideWidget touches the mount only)
handleIdleState(c, i) == resumeIdleLoop(clearTransitionVideo(c, FALSE), i)

\* Compositor.handleTransitionInState up to its first await.  A persona
\* without an entry clip gets a 1000 ms timer for transitionComplete and
\* its createWidget call at once.
handleTransitionInState(c, personaId) ==
    LET stopped == stopIdleLoop(c)
    IN  IF idleToActive(personaId)
        THEN playTransitionVideo4(stopped, "in")
        ELSE [stopped EXCEPT !.completeTimers = Min(@ + 1, MaxLayerTimers),
                             !.tokenRequests = Min(@ + 1, MaxLayerTimers)]

\* Compositor.handleActiveState
handleActiveState(c) ==
    IF c.videoReady THEN clearTransitionVideo(c, TRUE) ELSE c

\* Compositor.handleTransitionOutState
handleTransitionOutState(c, personaId) ==
    IF activeToIdle(personaId)
    THEN playTransitionVideo4(c, "out")
    ELSE [c EXCEPT !.returnTimers = Min(@ + 1, MaxLayerTimers)]

\* StateMachine.setState with the second Compositor's 'statechange' listener.
setState4(c, newState, persona, i) ==
    LET set == [c EXCEPT !.state = newState]
    IN  CASE newState = IDLE -> handleIdleState(set, i)
          [] newState = TRANSITIONING_IN -> handleTransitionInState(set, persona)
          [] newState = ACTIVE -> handleActiveState(set)
          [] newState = TRANSITIONING_OUT -> handleTransitionOutState(set, persona)
          [] OTHER -> set

\* StateMachine.summonPersona on this page
summonPersona4(c, personaId) ==
    IF c.state # IDLE \/ personaId \notin Personas THEN c
    ELSE setState4([c EXCEPT !.activePersona = personaId],
                   TRANSITIONING_IN, personaId, 0)

\* StateMachine.transitionComplete on this page
transitionComplete4(c) ==
    IF c.state # TRANSITIONING_IN THEN c
    ELSE setState4(c, ACTIVE, c.activePersona, 0)

\* StateMachine.startProcessing on this page (handleProcessingState logs)
startProcessing4(c) ==
    IF c.state # ACTIVE THEN c
    ELSE setState4(c, PROCESSING, c.activePersona, 0)

\* StateMachine.stopProcessing on this page
stopProcessing4(c) ==
    IF c.state # PROCESSING THEN c
    ELSE setState4(c, ACTIVE, c.activePersona, 0)

\* StateMachine.dismissPersona on this page
dismissPersona4(c) ==
    IF c.state # ACTIVE /\ c.state # PROCESSING THEN c
    ELSE setState4(c, TRANSITIONING_OUT, c.activePersona, 0)

\* StateMachine.returnToIdle on this page
returnToIdle4(c, i) ==
    IF c.state # TRANSITIONING_OUT THEN c
    ELSE setState4([c EXCEPT !.activePersona = "null"], IDLE, "null", i)

\* StateMachine.forceReset on this page
SM_forceReset4(c, i) ==
    setState4([c EXCEPT !.activePersona = "null"], IDLE, "null", i)

\* Compositor.forceReset (second version): StateMachine.forceReset, whose
\* notification already runs handleIdleState, then SimliManager.forceCleanup,
\* clearTransitionVideo and handleIdleState once more.
forceReset4(c, i, j) ==
    LET reset == SM_forceReset4(c, i)
        cleaned == [reset EXCEPT !.widget = FALSE, !.videoReady = FALSE]
    IN  handleIdleState(clearTransitionVideo(cleaned, FALSE), j)

\* Compositor.onTransitionVideoEnded
onTransitionVideoEnded(c, i) ==
    IF c.state = TRANSITIONING_IN THEN transitionComplete4(c)
    ELSE IF c.state = TRANSITIONING_OUT THEN returnToIdle4(c, i)
    ELSE c

\* Compositor.onSimliVideoReady
onSimliVideoReady(c) ==
    IF c.state = ACTIVE THEN clearTransitionVideo(c, TRUE) ELSE c

\* Compositor.onIdleLoopEnded
onIdleLoopEnded(c, i) ==
    IF c.isIdleLoopPlaying THEN playNextIdleLoop(c, i) ELSE c

\* The 500 ms timer of stopIdleLoop: idleLoop.pause().
pauseIdleLoop(c) ==
    [c EXCEPT !.idleLoop = IF @ \in {"loading", "playing"} THEN "paused" ELSE @]

\* The 500 ms timer of clearTransitionVideo: transition.pause(); src = ''.
clearTransitionSource(c) ==
    [entryPlaySettled(c) EXCEPT !.transition = "empty", !.transitionRole = "none"]

\* The .then of a floaties play() promise (startFloaties).
floatiesStarted(f) == [f EXCEPT !.active = TRUE, !.play = "playing"]

\* The .catch of a floaties play() promise (startFloaties).
floatiesBlocked(f) == [f EXCEPT !.play = "blocked"]

Step4(c) == c4' = c /\ UNCHANGED <<mainVars, messenger, picker, touch, spinner>>

\* A click on a persona button (onPersonaSelected) or window.summonPersona.
Invoke4(p) == Step4(summonPersona4(c4, p))

\* The dismiss button (onDismissClicked) or window.dismissPersona.
Dismiss4 ==
    /\ c4.state \in {ACTIVE, PROCESSING}
    /\ Step4(dismissPersona4(c4))

\* Compositor.forceReset from the console or the reset key.
ForceReset4 == \E i, j \in IdleLoopIndices : Step4(forceReset4(c4, i, j))

StartProcessing4 ==
    /\ c4.state = ACTIVE
    /\ Step4(startProcessing4(c4))

StopProcessing4 ==
    /\ c4.state = PROCESSING
    /\ Step4(stopProcessing4(c4))

\* play() of the transition clip resolves.
TransitionPlayStarted4 ==
    /\ c4.transition = "loading"
    /\ Step4([entryPlaySettled(c4) EXCEPT !.transition = "playing"])

\* play() of the transition clip is rejected; playTransitionVideo logs it.
TransitionPlayFailed4 ==
    /\ c4.transition = "loading"
    /\ Step4([entryPlaySettled(c4) EXCEPT !.transition = "failed"])

\* 'ended' of the transition clip.
TransitionEnded4 ==
    /\ c4.transition = "playing"
    /\ \E i \in IdleLoopIndices :
           Step4(onTransitionVideoEnded([c4 EXCEPT !.transition = "ended"], i))

ClearTimer4 ==
    /\ c4.clearTimers > 0
    /\ Step4(clearTransitionSource([c4 EXCEPT !.clearTimers = @ - 1]))

\* The 1000 ms timer of handleTransitionInState.
CompleteTimer4 ==
    /\ c4.completeTimers > 0
    /\ Step4(transitionComplete4([c4 EXCEPT !.completeTimers = @ - 1]))

\* The 500 ms timer of handleTransitionOutState.
ReturnTimer4 ==
    /\ c4.returnTimers > 0
    /\ \E i \in IdleLoopIndices :
           Step4(returnToIdle4([c4 EXCEPT !.returnTimers = @ - 1], i))

\* SimliManager.createWidget returns true: the widget is mounted.
TokenOk4 ==
    /\ c4.tokenRequests > 0
    /\ Step4([c4 EXCEPT !.tokenRequests = @ - 1,
                        !.widget = TRUE, !.videoReady = FALSE])

\* SimliManager.createWidget returns false: StateMachine.forceReset().
TokenFail4 ==
    /\ c4.tokenRequests > 0
    /\ \E i \in IdleLoopIndices :
           Step4(SM_forceReset4([c4 EXCEPT !.tokenRequests = @ - 1], i))

\* 'simli-video-ready' of the mounted widget.
SimliVideoReady4 ==
    /\ c4.widget /\ ~c4.videoReady
    /\ Step4(onSimliVideoReady([c4 EXCEPT !.videoReady = TRUE]))

\* play() of the idle clip resolves.
IdlePlayStarted4 ==
    /\ c4.idleLoop = "loading"
    /\ Step4([c4 EXCEPT !.idleLoop = "playing"])

\* 'ended' of the idle clip (loop = false).
IdleEnded4 ==
    /\ c4.idleLoop = "playing"
    /\ \E i \in IdleLoopIndices :
           Step4(onIdleLoopEnded([c4 EXCEPT !.idleLoop = "ended"], i))

IdlePauseTimer4 ==
    /\ c4.pauseTimers > 0
    /\ Step4(pauseIdleLoop([c4 EXCEPT !.pauseTimers = @ - 1]))

BottomFloatiesStarted ==
    /\ c4.bottomFloaties.play = "pending"
    /\ Step4([c4 EXCEPT !.bottomFloaties = floatiesStarted(@)])

BottomFloatiesBlocked ==
    /\ c4.bottomFloaties.play = "pending"
    /\ Step4([c4 EXCEPT !.bottomFloaties = floatiesBlocked(@)])

TopFloatiesStarted ==
    /\ c4.topFloaties.play = "pending"
    /\ Step4([c4 EXCEPT !.topFloaties = floatiesStarted(@)])

TopFloatiesBlocked ==
    /\ c4.topFloaties.play = "pending"
    /\ Step4([c4 EXCEPT !.topFloaties = floatiesBlocked(@)])

Controller4 ==
    \/ \E p \in PersonaIds : Invoke4(p)
    \/ Dismiss4
    \/ ForceReset4
    \/ StartProcessing4
    \/ StopProcessing4

Media4 ==
    \/ TransitionPlayStarted4
    \/ TransitionPlayFailed4
    \/ TransitionEnded4
    \/ IdlePlayStarted4
    \/ IdleEnded4
    \/ SimliVideoReady4

Timers4 ==
    \/ ClearTimer4
    \/ CompleteTimer4
    \/ ReturnTimer4
    \/ IdlePauseTimer4
    \/ TokenOk4
    \/ TokenFail4

Floaties4 ==
    \/ BottomFloatiesStarted
    \/ BottomFloatiesBlocked
    \/ TopFloatiesStarted
    \/ TopFloatiesBlocked

Next4 == Controller4 \/ Media4 \/ Timers4 \/ Floaties4

\* Compositor.init (second version) has run: floaties and idle loop started.
Init4 ==
    /\ MainInit
    /\ readySent = <<>>
    /\ cleanupTimers = 0
    /\ c4 \in Compositor4Init
    /\ messenger = MessengerInit
    /\ spinner = SpinnerIdle
    /\ touch = TouchInit
    /\ picker = PickerInit

Spec4 == Init4 /\ [][Next4]_vars

\* ------------------------------------------------------- Status Messenger
\* startProcessingMessages, its timer and stopProcessingMessages as
\* functions on the record messenger; JavaScript indexes from 0.

\* A start that goes on from the index the last rotation stopped at.
messengerStart_KeepIndex(m, p) ==
    [m EXCEPT !.persona = p,
              !.text = processingMessages(p)[(m.currentIndex % Len(processingMessages(p))) + 1],
              !.visible = TRUE,
              !.interval = TRUE,
              !.ticks = 0,
              !.previousIndex = m.currentIndex]

\* StateMachine.startProcessingMessages with activePersona = p.
messengerStart(m, p) ==
    [m EXCEPT !.persona = p,
              !.currentIndex = 0,
              !.text = processingMessages(p)[0 + 1],
              !.visible = TRUE,
              !.interval = TRUE,
              !.ticks = 0,
              !.previousIndex = m.currentIndex]

\* The callback of the setInterval of startProcessingMessages.
messengerTick(m) ==
    LET messages == processingMessages(m.persona)
        next == (m.currentIndex + 1) % Len(messages)
    IN  [m EXCEPT !.currentIndex = next,
                  !.text = messages[next + 1],
                  !.visible = TRUE,
                  !.ticks = @ + 1]

\* StateMachine.stopProcessingMessages
messengerStop(m) == [m EXCEPT !.interval = FALSE, !.visible = FALSE]

StepMessenger(m) == messenger' = m /\ UNCHANGED <<mainVars, c4, picker, touch, spinner>>

\* startProcessing in Active: no timer is running (see C20).
MessengerStart(p) ==
    /\ ~messenger.interval
    /\ StepMessenger(messengerStart(messenger, p))

MessengerTick ==
    /\ messenger.interval
    /\ messenger.ticks < MaxTicks
    /\ StepMessenger(messengerTick(messenger))

\* stopProcessing, dismissPersona or forceReset.
MessengerStop ==
    /\ messenger.interval
    /\ StepMessenger(messengerStop(messenger))

NextMessenger ==
    \/ \E p \in Personas : MessengerStart(p)
    \/ MessengerTick
    \/ MessengerStop

InitMessenger ==
    /\ MainInit
    /\ cleanupTimers = 0
    /\ readySent = <<>>
    /\ c4 = CHOOSE c \in Compositor4Init : c.idleLoopIndex = 0 /\ c.clearTimers = 0
    /\ messenger = MessengerInit
    /\ spinner = SpinnerIdle
    /\ touch = TouchInit
    /\ picker = PickerInit

SpecMessenger == InitMessenger /\ [][NextMessenger]_vars

\* --------------------------------------------------------- Asset Selector

\* A pickVideo that takes a list of one for no list at all.
pickVideo_SkipsSingle(videoConfig, idx) ==
    IF videoConfig.kind = "null" THEN "null"
    ELSE IF videoConfig.kind = "array"
         THEN IF Len(videoConfig.list) <= 1 THEN "null"
              ELSE videoConfig.list[idx + 1]
         ELSE videoConfig.list[1]

\* Compositor.pickVideo; idx is Math.floor(Math.random() * length).
pickVideo(videoConfig, idx) ==
    IF videoConfig.kind = "null" THEN "null"
    ELSE IF videoConfig.kind = "array"
         THEN IF Len(videoConfig.list) = 0 THEN "null"
              ELSE videoConfig.list[idx + 1]
         ELSE videoConfig.list[1]

\* The indices Math.floor(Math.random() * length) can give.
RandomIndices(videoConfig) ==
    IF Len(videoConfig.list) = 0 THEN {0} ELSE 0..(Len(videoConfig.list) - 1)

\* A transition handler calls pickVideo on its persona's entry.
Pick ==
    /\ \E idx \in RandomIndices(picker.config) :
           picker' = [picker EXCEPT !.picked = TRUE,
                                    !.result = pickVideo(picker.config, idx)]
    /\ UNCHANGED <<mainVars, c4, messenger, touch, spinner>>

NextPicker == Pick

InitPicker ==
    /\ MainInit
    /\ cleanupTimers = 0
    /\ readySent = <<>>
    /\ c4 = CHOOSE c \in Compositor4Init : c.idleLoopIndex = 0 /\ c.clearTimers = 0
    /\ messenger = MessengerInit
    /\ spinner = SpinnerIdle
    /\ touch = TouchInit
    /\ picker \in {[config |-> v, picked |-> FALSE, result |-> "null"] :
                       v \in VideoConfigs}

SpecPicker == InitPicker /\ [][NextPicker]_vars

\* ------------------------------------------------- TouchscreenApp (second)
\* touchscreen.js, the second TouchscreenApp, as functions on the record
\* touch.  The page shares config.js.

\* TouchscreenApp.setState
TS_setState(t, newState) == [t EXCEPT !.currentState = newState]

\* TouchscreenApp.dismissPersona
TS_dismissPersona(t) ==
    TS_setState([t EXCEPT !.container = {},
                          !.simliWidget = "null",
                          !.currentPersona = "null"],
                "menu")

\* TouchscreenApp.createSimliWidget up to its await of fetch.
TS_createSimliWidget(t, personaId) ==
    [t EXCEPT !.container = {},
              !.requests[personaId] = @ + 1]

\* TouchscreenApp.summonPersona
TS_summonPersona(t, personaId) ==
    IF personaId \notin Personas THEN t
    ELSE TS_createSimliWidget(
             TS_setState([t EXCEPT !.currentPersona = personaId], "active"),
             personaId)

\* createSimliWidget after its awaits, the request for personaId answered
\* with a token: the widget is appended to the container and kept.
TS_tokenReceived(t, personaId) ==
    [t EXCEPT !.requests[personaId] = @ - 1,
              !.container = @ \cup {personaId},
              !.simliWidget = personaId]

\* createSimliWidget's catch block: the request failed.
TS_tokenFailed(t, personaId) ==
    TS_dismissPersona([t EXCEPT !.requests[personaId] = @ - 1])

StepTouch(t) == touch' = t /\ UNCHANGED <<mainVars, c4, messenger, picker, spinner>>

\* A click on a persona circle of the menu.
TouchSummon(personaId) ==
    /\ touch.currentState = "menu"
    /\ personaId \in Personas => touch.requests[personaId] < MaxTouchRequests
    /\ StepTouch(TS_summonPersona(touch, personaId))

\* A click on the dismiss button of the active screen.
TouchDismiss ==
    /\ touch.currentState = "active"
    /\ StepTouch(TS_dismissPersona(touch))

TouchTokenReceived(personaId) ==
    /\ touch.requests[personaId] > 0
    /\ StepTouch(TS_tokenReceived(touch, personaId))

TouchTokenFailed(personaId) ==
    /\ touch.requests[personaId] > 0
    /\ StepTouch(TS_tokenFailed(touch, personaId))

NextTouch ==
    \/ \E personaId \in PersonaIds : TouchSummon(personaId)
    \/ TouchDismiss
    \/ \E personaId \in Personas : TouchTokenReceived(personaId)
    \/ \E personaId \in Personas : TouchTokenFailed(personaId)

InitTouch ==
    /\ MainInit
    /\ cleanupTimers = 0
    /\ readySent = <<>>
    /\ c4 = CHOOSE c \in Compositor4Init : c.idleLoopIndex = 0 /\ c.clearTimers = 0
    /\ messenger = MessengerInit
    /\ spinner = SpinnerIdle
    /\ touch = TouchInit
    /\ picker = PickerInit

SpecTouch == InitTouch /\ [][NextTouch]_vars

\* ------------------------------------------------------- Persona spinner
\* SpinMode of the persona spinner, one reel of it; the reels are planned
\* and animated independently and finish together.

\* JavaScript's %, the sign of the dividend kept.
jsRem(n, m) == IF n >= 0 THEN n % m ELSE -((-n) % m)

\* mod(n, m) = ((n % m) + m) % m
mod(n, m) == (jsRem(n, m) + m) % m

\* Math.round(num / den) for den > 0: the nearest integer, halves upward.
roundDiv(num, den) == (2 * num + den) \div (2 * den)

frontIndexFromRotation(rotDeg) ==
    LET r == mod(rotDeg, Degrees(360))
    IN  mod(roundDiv(-r, step), SYMBOLS_PER_REEL)

\* reelsSymbols[r][s], a persona named by its place in the shuffled list.
reelsSymbols(r, s) == (r * SYMBOLS_PER_REEL + s) % PersonaCount

\* getPaylineSymbols for the reel
getPaylineSymbol(sp, rot) == reelsSymbols(sp.reel, frontIndexFromRotation(rot))

\* The values Math.floor(Math.random() * SYMBOLS_PER_REEL) and
\* 3 + Math.floor(Math.random() * 3) can take.
StopIndices == 0..(SYMBOLS_PER_REEL - 1)
ExtraCycles == 3..5

\* A plan that leaves out the way to the target.
spinPlan_NoDelta(startRot, stopIdx, extraCycles) ==
    [startRot |-> startRot,
     endRot |-> startRot + extraCycles * Degrees(360),
     stopIdx |-> stopIdx]

\* The plan entry spin() makes for the reel.
spinPlan(startRot, stopIdx, extraCycles) ==
    LET target == -stopIdx * step
        startMod == mod(startRot, Degrees(360))
        targetMod == mod(target, Degrees(360))
        delta == mod(targetMod - startMod, Degrees(360))
    IN  [startRot |-> startRot,
         endRot |-> startRot + extraCycles * Degrees(360) + delta,
         stopIdx |-> stopIdx]

\* spin()
spin(sp, stopIdx, extraCycles) ==
    IF sp.spinning THEN sp
    ELSE LET plan == spinPlan(sp.rotation, stopIdx, extraCycles)
         IN  [sp EXCEPT !.spinning = TRUE, !.result = <<>>, !.plan = plan,
                        !.planned = TRUE, !.frame = 0, !.spins = @ + 1,
                        !.completed = FALSE]

\* easeOutCubic(k / MaxFrames) * Scale
easeOutCubic(k) == Scale - (MaxFrames - k) * (MaxFrames - k) * (MaxFrames - k)

\* The animation frame at k/MaxFrames of the reel's duration (k = MaxFrames:
\* at or after its end); allDone tells whether every reel has reached its
\* end.  A rotation between two units is kept at the unit below.
tick(sp, k, allDone) ==
    IF ~sp.planned THEN sp
    ELSE LET next == sp.plan.startRot
                       + ((sp.plan.endRot - sp.plan.startRot) * easeOutCubic(k))
                             \div Scale
         IN  IF allDone
             THEN [sp EXCEPT !.rotation = next, !.frame = k,
                             !.planned = FALSE, !.spinning = FALSE,
                             !.result = <<getPaylineSymbol(sp, next)>>,
                             !.completed = TRUE]
             ELSE [sp EXCEPT !.rotation = next, !.frame = k]

\* stopAll()
stopAll(sp) ==
    [sp EXCEPT !.planned = FALSE, !.spinning = FALSE,
               !.result = <<getPaylineSymbol(sp, sp.rotation)>>,
               !.completed = FALSE]

StepSpinner(sp) == spinner' = sp /\ UNCHANGED <<mainVars, c4, messenger, picker, touch>>

\* The SPIN button or the space key.
Spin(stopIdx, extraCycles) ==
    /\ ~spinner.spinning
    /\ spinner.spins < MaxSpins
    /\ StepSpinner(spin(spinner, stopIdx, extraCycles))

\* An animation frame: time has moved on since the frame before, and all
\* reels are done only when this one is.
Tick(k, allDone) ==
    /\ spinner.planned
    /\ k > spinner.frame \/ k = MaxFrames
    /\ allDone => k = MaxFrames
    /\ StepSpinner(tick(spinner, k, allDone))

\* The Stop button.
StopAll == StepSpinner(stopAll(spinner))

NextSpinner ==
    \/ \E stopIdx \in StopIndices, extraCycles \in ExtraCycles :
           Spin(stopIdx, extraCycles)
    \/ \E k \in 1..MaxFrames, allDone \in BOOLEAN : Tick(k, allDone)
    \/ StopAll

InitSpinner ==
    /\ MainInit
    /\ cleanupTimers = 0
    /\ readySent = <<>>
    /\ c4 = CHOOSE c \in Compositor4Init : c.idleLoopIndex = 0 /\ c.clearTimers = 0
    /\ messenger = MessengerInit
    /\ touch = TouchInit
    /\ picker = PickerInit
    /\ \E r \in 0..(REELS - 1) : spinner = SpinnerInit(r)

SpecSpinner == InitSpinner /\ [][NextSpinner]_vars

\* ------------------------------------------------------------------ claims

\* C1: in every reachable state the Transition layer and the Simli mount do
\* not both carry the class 'active'.
C1_Exclusivity == ~(transitionActive /\ mountActive)

\* C2: the state machine is in Active (or beyond it, in Listening) only when
\* the current attempt's own entry clip is over and one of the current
\* attempt's own detectors has signalled ready.
C2_ActiveAfterBoth ==
    currentState \in {ACTIVE, PROCESSING} => (clipDone /\ sessReady)

\* C3: the swap of an activation is performed at most once, and exactly once
\* when both of its signals have occurred, whatever happens afterwards until
\* the next accepted activate.
C3_SwapExactlyOnce ==
    /\ swaps <= 1
    /\ (clipDone /\ sessReady) => swaps = 1

\* C4: whenever the Simli mount is visible the state machine is in Active or
\* Listening and the mounted widget's Session has been marked ready.
C4_SurfaceOnlyWhenActiveReady ==
    mountActive => /\ currentState \in {ACTIVE, PROCESSING}
                   /\ currentWidget # 0
                   /\ videoStreamActive

\* C5: from a forceReset made during Entering until the next accepted
\* activate, the system stays in Idle with the Simli mount hidden, whichever
\* signals of the reset activation arrive.
C5_StaleSignalsIgnored ==
    resetInEntering => (currentState = IDLE /\ ~mountActive)

\* C6: the presentation never hangs in Entering: while the state machine is
\* in Entering the program has a task pending (a timer, the token request,
\* the play() promise, the playing clip), so that it gets on to Active or
\* Idle without a controller's help.
C6_EnteringNeverHangs ==
    currentState = TRANSITIONING_IN => ENABLED Pending

\* C6 as a property of behaviours, for FairSpec.
C6_EnteringEnds ==
    (currentState = TRANSITIONING_IN) ~> (currentState \in {ACTIVE, IDLE})

\* The case of C7: entering, the current attempt's widget has been created
\* and its entry clip is over.
C7_Waiting ==
    /\ currentState = TRANSITIONING_IN
    /\ hti[attempt] = "done"
    /\ clipDone

\* C7: while the current attempt waits in Entering with its widget created
\* and its clip over, its fallback timer is armed, and the step in which
\* that timer stops being armed (it expires, or a reset clears it) leaves
\* Entering: to Active, unless a reset took the system to Idle.  So the wait
\* lasts no longer than the timer.
C7_FallbackReachesActive ==
    /\ [](C7_Waiting => fallback[attempt])
    /\ [][(C7_Waiting /\ ~fallback'[attempt])
            => currentState' \in {ACTIVE, IDLE}]_vars

\* With a pending timer bound to fire (FairSpec), the wait of C7 ends.
C7_WaitEnds == C7_Waiting ~> (currentState \in {ACTIVE, IDLE})

\* Active reached on the fallback timer: the current attempt's widget is
\* mounted, its video never carried a stream, and it was marked ready.
C7_Witness ==
    /\ currentState = ACTIVE
    /\ clipDone /\ sessReady
    /\ mountChild = attempt
    /\ ~videoStream
    /\ videoStreamActive
    /\ ~fallback[attempt]

\* C8: after a dismiss the system gets to Idle: while it is in Exiting the
\* program has a task pending, the end of the exit clip ends Exiting, and
\* the step that reaches Idle leaves no widget mounted and the mount hidden.
C8_DismissReachesIdle ==
    /\ [](currentState = TRANSITIONING_OUT => ENABLED Pending)
    /\ []((videoRole = "out" /\ video = "ended")
             => currentState # TRANSITIONING_OUT)
    /\ [][(currentState # IDLE /\ currentState' = IDLE)
             => (mountChild' = 0 /\ ~mountActive')]_vars

\* C8 as a property of behaviours, for FairSpec.
C8_ExitingEnds ==
    (currentState = TRANSITIONING_OUT)
        ~> (currentState = IDLE /\ mountChild = 0 /\ ~mountActive)

\* An attempt's Session is live: its widget is mounted, or its polling loop
\* or its fallback timer is armed.
Live(a) == mountChild = a \/ poll[a] \/ fallback[a]

\* C9: at most one attempt's Session is live at any instant.
C9_SingleSession == Cardinality({a \in Attempts : Live(a)}) <= 1

\* C10: an attempt that forceReset ended while its token request was in
\* flight never gets a widget mounted, a polling loop or a fallback timer.
C10_StaleTokenDiscarded == \A a \in discard : ~Live(a)

\* C11: in every state in which a persona is up (not Idle), the state that
\* forceReset returns, and the state that an accepted dismissPersona returns,
\* has neither the fallback timer nor the polling loop of the current
\* attempt's Session armed.
C11_TimersCancelled ==
    currentState # IDLE =>
        /\ ~forceReset(St).poll[attempt]
        /\ ~forceReset(St).fallback[attempt]
        /\ currentState \in {ACTIVE, PROCESSING} =>
               /\ ~dismissPersona(St).poll[attempt]
               /\ ~dismissPersona(St).fallback[attempt]

\* What C12 requires of the state a reset returns: Idle, no active persona,
\* no rotation timer, both layers without 'active', nothing mounted, and one
\* 'statechange' for idle dispatched.
ResetDone(r) ==
    /\ r.currentState = IDLE
    /\ r.activePersona = "null"
    /\ ~r.processingMessageInterval
    /\ ~r.transitionActive
    /\ ~r.mountActive
    /\ r.mountChild = 0
    /\ r.currentWidget = 0
    /\ NotifiedStates(r) = <<IDLE>>

\* C12: in every reachable state, whichever the state-machine state,
\* Compositor.forceReset and StateMachine.forceReset each return with the
\* system reset: Idle, no persona, messenger stopped, layers hidden, no widget.
C12_ForceResetAlways ==
    /\ currentState \in States
    /\ ResetDone(forceReset(St))
    /\ ResetDone(SM_forceReset(St))

\* A state in which a reset has everything to undo: Listening with the
\* rotation timer running and a widget mounted and shown.
C12_Witness ==
    /\ currentState = PROCESSING
    /\ processingMessageInterval
    /\ activePersona # "null"
    /\ mountActive
    /\ mountChild # 0
    /\ ResetDone(forceReset(St))

\* C13: in every state other than Idle an activate, for whichever persona
\* id, and in Idle a dismiss, returns the state as it found it, with no
\* 'statechange' dispatched and a diagnostic written.
C13_Rejected ==
    /\ currentState # IDLE =>
           \A p \in PersonaIds : summonPersona(St, p) = [St EXCEPT !.warned = TRUE]
    /\ currentState = IDLE =>
           dismissPersona(St) = [St EXCEPT !.warned = TRUE]

\* An activate rejected while the first attempt is entering with its token
\* request in flight and its clip playing.
C13_Witness ==
    /\ currentState = TRANSITIONING_IN
    /\ hti[attempt] = "awaitToken"
    /\ video = "playing"
    /\ summonPersona(St, "no-clips").warned
    /\ summonPersona(St, "no-clips").notified = <<>>
    /\ summonPersona(St, "no-clips").activePersona = activePersona

C15_TokenFailureResets ==
    \A a \in Attempts :
        (currentState = TRANSITIONING_IN /\ hti[a] = "awaitToken") =>
            LET r == tokenFailed(St, a)
            IN  /\ r.warned
                /\ r.currentState = IDLE
                /\ r.activePersona = "null"
                /\ r.mountChild = 0
                /\ ~r.mountActive
                /\ ~r.poll[a]
                /\ ~r.fallback[a]
                /\ r.hti[a] = "done"
                /\ \A b \in Attempts :
                       r.hti[b] = "awaitToken" => hti[b] = "awaitToken"

\* The current attempt's own token request is in flight while its entry
\* clip plays, and its failure takes the system to Idle.
C15_Witness ==
    /\ currentState = TRANSITIONING_IN
    /\ hti[attempt] = "awaitToken"
    /\ video = "playing" /\ videoAtt = attempt
    /\ transitionActive
    /\ tokenFailed(St, attempt).currentState = IDLE
    /\ ~tokenFailed(St, attempt).transitionActive

\* C16: a clip that failed to start counts as over.  While the system is
\* entering with the current attempt's entry clip failed, the clip half of
\* the rendezvous is set; and the step in which the exit clip fails to start
\* during Exiting reaches Idle or leaves the return to Idle scheduled.
C16_FailedClipCompletes ==
    /\ []((/\ currentState = TRANSITIONING_IN
           /\ videoRole = "in" /\ videoAtt = attempt /\ video = "failed")
              => transitionComplete)
    /\ [][(currentState = TRANSITIONING_OUT /\ videoRole = "out" /\ PlayFailed)
              => (currentState' = IDLE \/ returnTimers' > 0)]_vars

\* The changes of state C17 lists; every state may go to Idle (forceReset).
Allowed ==
    {<<IDLE, TRANSITIONING_IN>>,
     <<TRANSITIONING_IN, ACTIVE>>,
     <<ACTIVE, PROCESSING>>,
     <<PROCESSING, ACTIVE>>,
     <<ACTIVE, TRANSITIONING_OUT>>,
     <<PROCESSING, TRANSITIONING_OUT>>,
     <<TRANSITIONING_OUT, IDLE>>}
    \cup {<<st, IDLE>> : st \in States}

\* C17: the state machine starts in Idle, and every step that changes its
\* state makes one of the listed changes.
C17_OnlyListedTransitions ==
    /\ currentState = IDLE
    /\ [][currentState' # currentState
            => <<currentState, currentState'>> \in Allowed]_vars

\* Back in Idle after a whole cycle: the attempt was entered, both of its
\* signals came, it was swapped in once, and no reset cut it short in Entering.
C17_Witness ==
    /\ currentState = IDLE
    /\ activePersona = "null"
    /\ attempt >= 1
    /\ clipDone /\ sessReady
    /\ swaps = 1
    /\ ~resetInEntering

\* The case of C18: entering for a persona that declares no entry clip.
C18_NoClipEntering ==
    /\ currentState = TRANSITIONING_IN
    /\ activePersona \in Personas
    /\ ~idleToActive(activePersona)

\* C18: while the system is entering for a persona without an entry clip, the
\* clip half of the rendezvous is set from the activation on, and the step in
\* which the attempt's Session signals ready enters Active.
C18_NoClipGatedByReadyOnly ==
    /\ [](C18_NoClipEntering => (transitionComplete /\ clipDone))
    /\ [][(C18_NoClipEntering /\ ~sessReady /\ sessReady')
            => currentState' = ACTIVE]_vars

\* Active for a persona without an entry clip, reached when the polling loop
\* of its own widget found the stream: no clip was ever loaded.
C18_Witness ==
    /\ currentState = ACTIVE
    /\ activePersona = "no-clips"
    /\ attempt = 1
    /\ sessReady
    /\ videoStream
    /\ fallback[1] = FALSE /\ poll[1] = FALSE
    /\ mountActive
    /\ video = "empty"

\* C19: whenever a persona that declares an entry clip (as every configured
\* persona does) is up, in Entering, Active, Listening or Exiting, exactly
\* one of the Transition layer and the Simli mount carries 'active'.
C19_ExactlyOneVisible ==
    (/\ currentState # IDLE
     /\ activePersona \in Personas
     /\ idleToActive(activePersona))
        => (transitionActive # mountActive)

\* C20: one rotation timer runs, and the field holds its handle, in
\* Listening; none runs and the field is empty in every other state.
C20_MessengerOnlyInListening ==
    /\ rotationTimers = (IF currentState = PROCESSING THEN 1 ELSE 0)
    /\ processingMessageInterval <=> (currentState = PROCESSING)

\* Listening in a second activation, the rotation timer running: the first
\* activation's timer, if it had one, was stopped on the way.
C20_Witness ==
    /\ currentState = PROCESSING
    /\ activePersona = "mabel"
    /\ attempt = 2
    /\ rotationTimers = 1
    /\ processingMessageInterval

\* What C21 requires of the state r a transition method returns, when the
\* method makes a transition: one notification, naming the state and the
\* active persona as they are in r and the state the method found, with no
\* persona exactly when the new state is Idle.
Notifies(r) ==
    /\ Len(r.notified) = 1
    /\ r.notified[1] = Notification(r.currentState, r.activePersona, currentState)
    /\ (r.notified[1].persona = "null") <=> (r.notified[1].state = IDLE)

\* What it requires when the request is rejected: no notification.
NotifiesIf(accepted, r) ==
    IF accepted THEN Notifies(r) ELSE (r.notified = <<>> /\ r.currentState = currentState)

\* C21: in every reachable state, each transition method of the state machine
\* dispatches exactly one well-formed notification when it makes its
\* transition and none when it rejects the request.
C21_OneNotificationPerTransition ==
    /\ \A p \in PersonaIds :
           NotifiesIf(currentState = IDLE /\ p \in Personas, summonPersona(St, p))
    /\ NotifiesIf(currentState = TRANSITIONING_IN, SM_transitionComplete(St))
    /\ NotifiesIf(currentState = ACTIVE, startProcessing(St))
    /\ NotifiesIf(currentState = PROCESSING, stopProcessing(St))
    /\ NotifiesIf(currentState \in {ACTIVE, PROCESSING}, dismissPersona(St))
    /\ NotifiesIf(currentState = TRANSITIONING_OUT, returnToIdle(St))
    /\ NotifiesIf(TRUE, SM_forceReset(St))

\* Exiting: returnToIdle is about to notify idle with no persona, coming from
\* transitioning-out, while an activate is rejected silently.
C21_Witness ==
    /\ currentState = TRANSITIONING_OUT
    /\ activePersona = "mabel"
    /\ returnToIdle(St).notified
           = <<Notification(IDLE, "null", TRANSITIONING_OUT)>>
    /\ summonPersona(St, "mabel").notified = <<>>

\* C22: on the 4-layer page, in every reachable Idle state the AmbientLoop
\* layer carries 'active' and its clip is playing (play() called and not
\* paused), whatever activations, failures, dismissals, resets and timers
\* came before.
C22_AmbientLoopInIdle ==
    c4.state = IDLE =>
        /\ c4.idleActive
        /\ c4.idleLoop \in {"loading", "playing", "ended"}

\* C23: resuming the ambient loop while a clip is playing changes nothing:
\* no new clip is selected and playback is not restarted.
C23_EnsureIdempotent ==
    (c4.isIdleLoopPlaying /\ c4.idleActive /\ c4.idleLoop = "playing") =>
        \A i \in IdleLoopIndices : resumeIdleLoop(c4, i) = c4

\* C24: on the 4-layer page the source, looping, visibility and playback of
\* the bottom and the top overlay change only when a play() promise of
\* startFloaties settles: no user request, state handler, media event, timer
\* or token outcome changes them.
C24_OverlaysUncoupled ==
    [][\/ /\ c4'.bottomFloaties = c4.bottomFloaties
           /\ c4'.topFloaties = c4.topFloaties
       \/ Floaties4]_vars

\* Both overlays started at init and a persona has been taken to Exiting.
C24_Witness ==
    /\ c4.state = TRANSITIONING_OUT
    /\ c4.bottomFloaties = [src |-> TRUE, loop |-> TRUE, active |-> TRUE, play |-> "playing"]
    /\ c4.topFloaties = c4.bottomFloaties

\* C25: in every reachable state in Entering whose activation has not
\* signalled ready, the fallback timer of that activation is pending: it is
\* armed when Entering is entered, not when the token request returns.
C25_FallbackArmedInEntering ==
    (currentState = TRANSITIONING_IN /\ ~sessReady) => fallback[attempt]

\* C26: the detectors of one widget dispatch 'simli-video-ready' at most
\* once: after the first, no poll tick and no fallback timer of that widget
\* dispatches it again, destroyed or not.
C26_ReadyAtMostOncePerWidget ==
    \A a \in DOMAIN readySent : readySent[a] <= 1

\* C27: the fallback diagnostic is written in exactly the tasks in which a
\* fallback timer produces the ready signal: an expiring fallback timer
\* writes it if and only if it dispatches 'simli-video-ready', and a poll
\* tick that detects the stream never writes it.
C27_FallbackDiagnostic ==
    /\ \A a \in Attempts :
           fallback[a] =>
               LET r == fallbackTimeout(St, a)
               IN  r.fallbackLogged <=> (r.readyEvents = 1)
    /\ \A a \in Attempts :
           (poll[a] /\ videoStream) =>
               LET r == pollDetected(St, a)
               IN  ~r.fallbackLogged /\ r.readyEvents <= 1

\* In Entering, with no stream, the fallback timer of the current activation
\* is about to produce the ready signal and the diagnostic.
C27_Witness ==
    /\ currentState = TRANSITIONING_IN
    /\ fallback[attempt]
    /\ ~videoStream
    /\ fallbackTimeout(St, attempt).fallbackLogged
    /\ fallbackTimeout(St, attempt).readyEvents = 1

\* C28: while a rotation runs, the status overlay shows the message at index
\* k mod n of the persona's pool of n messages, k being the ticks since the
\* start: the first message at the start, whatever ran before.
C28_RotationFromZero ==
    messenger.interval =>
        LET messages == processingMessages(messenger.persona)
        IN  /\ messenger.visible
            /\ messenger.text = messages[(messenger.ticks % Len(messages)) + 1]

\* A start after a rotation that was stopped at index 2 has ticked past the
\* end of its pool of three.
C28_Witness ==
    /\ messenger.interval
    /\ messenger.previousIndex = 2
    /\ messenger.persona = "hoosier-oracle"
    /\ messenger.ticks = 4
    /\ messenger.text = "Oracle is consulting the echoes..."

\* C29: what pickVideo returns is one of the candidates the entry lists (or
\* its single string), and it is null exactly when the entry is null or an
\* empty list.
C29_PickIsConfigured ==
    picker.picked =>
        /\ picker.result # "null" =>
               \E i \in 1..Len(picker.config.list) : picker.result = picker.config.list[i]
        /\ (picker.result = "null") <=>
               \/ picker.config.kind = "null"
               \/ (picker.config.kind = "array" /\ picker.config.list = <<>>)

\* The last of three different candidates has been picked.
C29_Witness ==
    /\ picker.picked
    /\ picker.config = [kind |-> "array",
                        list |-> <<"idle_to_mabel_2.mp4", "idle_to_mabel_1.MOV",
                                   "mabel_to_idle.mp4">>]
    /\ picker.result = "mabel_to_idle.mp4"

\* C30: whatever calls of summonPersona, transitionComplete,
\* startProcessing, stopProcessing, dismissPersona, returnToIdle and
\* forceReset were made, activePersona is null exactly in Idle.
C30_PersonaIffNotIdle ==
    (activePersona = "null") <=> (currentState = IDLE)

\* Back in Idle without a persona after the second accepted activation.
C30_Witness ==
    /\ currentState = IDLE
    /\ activePersona = "null"
    /\ attempt = 2

\* C31: a clip that playTransitionVideo started and that is playing, the
\* Transition layer not hidden since, is not paused or unloaded by a cleanup
\* timer of hideTransitionVideo: such a timer was armed before the clip
\* started.
C31_CleanupSparesLaterClip ==
    [][(transitionActive /\ video = "playing" /\ cleanupTimers' < cleanupTimers)
           => video' = "playing"]_vars

\* C32: when the token request of an attempt that forceReset ended while the
\* request was in flight fails during a later attempt, the state machine
\* stays where it is and the later attempt keeps its persona and its widget.
C32_StaleTokenFailureIgnored ==
    \A a \in discard :
        (a # attempt /\ hti[a] = "awaitToken" /\ currentState # IDLE) =>
            LET r == tokenFailed(St, a)
            IN  /\ r.currentState = currentState
                /\ r.activePersona = activePersona
                /\ r.mountChild = mountChild
                /\ r.currentWidget = currentWidget

C34_WidgetOnlyForCurrentPersona ==
    /\ (touch.simliWidget # "null" /\ touch.container # {}) =>
           /\ touch.currentState = "active"
           /\ touch.currentPersona = touch.simliWidget
           /\ touch.container = {touch.currentPersona}
    /\ touch.currentState = "menu" =>
           /\ touch.simliWidget = "null"
           /\ touch.container = {}
           /\ touch.currentPersona = "null"

\* C35: when a spin that started from a whole multiple of the reel step has
\* run to completion, the reel rests on its planned stop index, and the
\* payline symbol reported for the reel is its symbol at that index.
C35_ReelRestsOnPlannedStop ==
    (spinner.completed /\ spinner.plan.startRot % step = 0) =>
        /\ spinner.rotation = spinner.plan.endRot
        /\ frontIndexFromRotation(spinner.rotation) = spinner.plan.stopIdx
        /\ spinner.result = <<reelsSymbols(spinner.reel, spinner.plan.stopIdx)>>

C35_Witness ==
    /\ spinner.completed
    /\ spinner.spins = 2
    /\ spinner.plan.startRot % step = 0
    /\ spinner.plan.startRot > Degrees(360)
    /\ spinner.plan.stopIdx = 4
    /\ spinner.reel = 3
    /\ spinner.result = <<reelsSymbols(3, 4)>>
====
